---------------------------- MODULE Spec2Model ----------------------------
(***************************************************************************)
(* Email/password and Google OAuth authentication backend                  *)
(* (backend/server.js, backend/models/User.js).                            *)
(*                                                                         *)
(* The store is the MongoDB "users" collection behind the Mongoose model.  *)
(* Every HTTP request runs in a slot of `req`; a handler is cut into one   *)
(* action per database operation it awaits, so that two requests can       *)
(* interleave exactly where the JavaScript handlers can.                   *)
(***************************************************************************)
EXTENDS Integers, Sequences, FiniteSets, TLC

(***************************************************************************)
(* Bounds of the model.                                                    *)
(***************************************************************************)
MaxId == 2         \* document ids that `new User` may still hand out
MaxNow == 2        \* clock ticks the model lets pass (one token lifetime each)

(***************************************************************************)
(* Program constants.                                                      *)
(***************************************************************************)
ExpiresIn == 3600                      \* expiresIn: '1h', in seconds
JWT_SECRET == "your_jwt_secret_key"
FRONTEND == "http://localhost:3000"
\* A field or argument that may be absent is <<>> when it is absent (undefined)
\* and <<s>> when it holds the string s.
Undefined == <<>>

MSG_GOOGLE_PASSWORD == "This email is registered with password authentication. Please log in using the password method."
MSG_SIGNUP_GOOGLE == "This email is registered with Google authentication. Please log in using Google."
MSG_SIGNUP_INUSE == "Email already in use. Try logging in or use a different email."
MSG_INVALID == "Invalid credentials"
MSG_LOGIN_GOOGLE == "This account is registered with Google authentication. Please log in using Google."
MSG_SERVER == "Server error"
MSG_NOTFOUND == "User not found"
E11000 == "E11000 duplicate key error collection: users index: email_1"

(***************************************************************************)
(* Inputs.                                                                 *)
(***************************************************************************)
Req == {1, 2}                          \* requests in flight at the same time
Emails == {"alice@x.com", "bob@x.com"}
Passwords == {"pw123", "wrong"}
Names == {"Alice"}
DisplayNames == {"Al G"}
ProfileIds == {"g-1", "g-2"}

\* What POST /signup is sent: the well-formed bodies (one password; the
\* other one is what a login gets wrong), a body with an empty name and an
\* empty password, and a body with a malformed email and no password (both
\* sent to the endpoint directly).
BadEmail == "bob.x.com"
AllEmails == Emails \cup {BadEmail}
SignupBodies ==
    (Names \X Emails \X {<<"pw123">>})
        \cup {<<"", "bob@x.com", <<"">>>>, <<"Mallory", BadEmail, Undefined>>}

\* What POST /login is sent: the well-formed bodies, and a body without a
\* password.
LoginBodies ==
    (Emails \X {<<p>> : p \in Passwords}) \cup {<<"bob@x.com", Undefined>>}

(***************************************************************************)
(* frontend/src/App.jsx, handleSubmit: the checks of the form.             *)
(***************************************************************************)
Char(s, i) == SubSeq(s, i, i)

\* The strings of this module are ASCII: tab, line feed, form feed, carriage
\* return, and the characters from space to tilde in the order of their
\* codes, in two runs around the grave accent, which no string here holds.
Printable == " !\"#$%&'()*+,-./0123456789:;<=>?@ABCDEFGHIJKLMNOPQRSTUVWXYZ[\\]^_"
PrintableHigh == "abcdefghijklmnopqrstuvwxyz{|}~"

FirstPrintable == 32
FirstPrintableHigh == 97

Alphabet ==
    {"\t", "\n", "\f", "\r"} \cup {Char(Printable, i) : i \in 1..Len(Printable)}
        \cup {Char(PrintableHigh, i) : i \in 1..Len(PrintableHigh)}

\* the UTF-16 code unit of every character of the alphabet
charCodes ==
    [c \in Alphabet |->
        IF c = "\t" THEN 9
        ELSE IF c = "\n" THEN 10
        ELSE IF c = "\f" THEN 12
        ELSE IF c = "\r" THEN 13
        ELSE IF \E i \in 1..Len(Printable) : Char(Printable, i) = c
        THEN FirstPrintable - 1
                 + (CHOOSE i \in 1..Len(Printable) : Char(Printable, i) = c)
        ELSE FirstPrintableHigh - 1
                 + (CHOOSE i \in 1..Len(PrintableHigh) : Char(PrintableHigh, i) = c)]

\* String.prototype.charCodeAt, of a one-character string
codeUnit(c) == charCodes[c]

\* the UTF-16 code units of a string, as the pattern of line 46 reads it and
\* as the App holds its message
codeUnits(s) == [i \in 1..Len(s) |-> codeUnit(Char(s, i))]

\* The code units \s matches: tab, line feed, vertical tab, form feed,
\* carriage return, space, U+00A0, U+1680, U+2000 to U+200A, U+2028, U+2029,
\* U+202F, U+205F, U+3000 and U+FEFF.
Whitespace ==
    {9, 10, 11, 12, 13, 32, 160, 5760} \cup (8192..8202)
        \cup {8232, 8233, 8239, 8287, 12288, 65279}

At == 64
Dot == 46

\* /\S+@\S+\.\S+/.test, on the code units of the tested string
regexTest(units) ==
    \E i \in 2..Len(units), j \in 4..Len(units) :
        /\ units[i] = At /\ units[i - 1] \notin Whitespace
        /\ j >= i + 2 /\ j < Len(units)
        /\ units[j] = Dot /\ units[j + 1] \notin Whitespace
        /\ \A k \in (i + 1)..(j - 1) : units[k] \notin Whitespace

\* /\S+@\S+\.\S+/.test(email)
emailPattern(email) == regexTest(codeUnits(email))

\* lines 42-49: "" when the form sends the request, else the message shown
formMessage(isLogin, name, email, password) ==
    IF email = "" \/ password = "" \/ (~isLogin /\ name = "")
    THEN "All fields are required"
    ELSE IF ~emailPattern(email) THEN "Invalid email format"
    ELSE ""

VARIABLES store, nextId, now, req, created, form
vars == <<store, nextId, now, req, created, form>>

\* Date.now() in seconds; one tick of `now` is one token lifetime.
Clock(t) == t * ExpiresIn

(***************************************************************************)
(* models/User.js: the document schema.  `password` and `googleId` are     *)
(* plain optional strings; `authMethod` is a required enum.                *)
(***************************************************************************)
AuthMethods == {"password", "google"}

userSchema(id, name, email, password, googleId, authMethod) ==
    [id |-> id, name |-> name, email |-> email, password |-> password,
     googleId |-> googleId, authMethod |-> authMethod]

\* A document written before this code ran: a google-method user that was
\* never linked (the case lines 46-49 of the verify callback exist for).
LegacyId == 0
LegacyUser == userSchema(LegacyId, "Legacy", "alice@x.com", Undefined, Undefined, "google")

(***************************************************************************)
(* The store operations of the Mongoose model.                             *)
(***************************************************************************)
\* User.findOne({ email }): <<>> when no document matches, else <<doc>>.
findOne(st, email) ==
    IF \E u \in st : u.email = email
    THEN <<CHOOSE u \in st : u.email = email>>
    ELSE <<>>

\* (variant: User.findOne() without a filter)
findByIdAny(st, id) ==
    IF st # {}
    THEN <<CHOOSE u \in st : \A v \in st : u.id <= v.id>>
    ELSE <<>>

\* User.findById(id)
findById(st, id) ==
    IF \E u \in st : u.id = id
    THEN <<CHOOSE u \in st : u.id = id>>
    ELSE <<>>

\* (variant: the only unique index is the one on _id)
DuplicateKeyIdOnly(st, doc) == \E u \in st : u.id = doc.id

\* (variant: the collection has no unique index)
DuplicateKeyNoIndex(st, doc) == FALSE

\* The unique index on email: an insert of a second document with the same
\* email is rejected with a duplicate-key error.
DuplicateKey(st, doc) == \E u \in st : u.email = doc.email

\* (variant: save() resolves without the document being written)
insertOneLost(st, doc) == st

\* save() of a new document: the collection after a successful insert.
insertOne(st, doc) == st \cup {doc}

\* (variant: the update has no _id filter)
updateGoogleIdNoFilter(st, doc) == {[u EXCEPT !.googleId = doc.googleId] : u \in st}

\* save() of a loaded document whose googleId was modified:
\* updateOne({ _id }, { $set: { googleId } }), whatever the stored value is.
updateGoogleId(st, doc) ==
    {IF u.id = doc.id THEN [u EXCEPT !.googleId = doc.googleId] ELSE u : u \in st}

(***************************************************************************)
(* bcryptjs and jsonwebtoken.                                              *)
(***************************************************************************)
\* bcrypt.hash(password, 10)
hash(password) == "$2a$10$" \o password

\* (variant: the plain password is compared with the stored string)
comparePlain(password, hashed) == hashed = password

\* bcrypt.compare(password, hashed)
compare(password, hashed) == hashed = hash(password)

\* (variant: expiresIn '2h')
signTwoHours(id, secret, t) ==
    [id |-> id, iat |-> t, exp |-> t + 2 * ExpiresIn, sig |-> secret]

\* jwt.sign({ id }, JWT_SECRET, { expiresIn: '1h' }) at time t
sign(id, secret, t) == [id |-> id, iat |-> t, exp |-> t + ExpiresIn, sig |-> secret]

(***************************************************************************)
(* Requests and responses.                                                 *)
(***************************************************************************)
NoResp == [status |-> 0, msg |-> "", token |-> <<>>, user |-> <<>>, redirect |-> ""]
NoDone == [called |-> FALSE, err |-> "", user |-> <<>>, token |-> <<>>, msg |-> ""]

Idle == [kind |-> "none", pc |-> "idle", name |-> "", email |-> "",
         password |-> Undefined, profileId |-> Undefined, header |-> <<>>,
         reqUser |-> <<>>,
         user |-> <<>>, seen |-> <<>>, done |-> NoDone, resp |-> NoResp]

\* res.status(s).json({ msg })
jsonMsg(status, msg) ==
    [status |-> status, msg |-> msg, token |-> <<>>, user |-> <<>>, redirect |-> ""]

\* res.json({ token, user })
jsonOk(token, view) ==
    [status |-> 200, msg |-> "", token |-> <<token>>, user |-> <<view>>, redirect |-> ""]

\* res.redirect(`${FRONTEND}?msg=${encodeURIComponent(msg)}`)
redirectMsg(msg) ==
    [status |-> 302, msg |-> msg, token |-> <<>>, user |-> <<>>, redirect |-> "msg"]

\* res.redirect(`${FRONTEND}?token=${token}`)
redirectToken(token) ==
    [status |-> 302, msg |-> "", token |-> <<token>>, user |-> <<>>, redirect |-> "token"]

\* done(err, null) makes passport call next(err): the default error handler of
\* express answers 500 with the error itself.
errorPage(err) ==
    [status |-> 500, msg |-> err, token |-> <<>>, user |-> <<>>, redirect |-> ""]

\* What the creating request of an email's document told its client
\* (history, for the claims that relate a later request to the first one).
NoCreated == [e \in AllEmails |-> <<>>]

\* The browser tab.  App.jsx lines 5-12: the useState initial values of the
\* App; with them, whether the App is on screen (it is not while the browser
\* is at the Google login), the requests of the tab that are on the wire, not
\* yet at their route handler, and per connection the handler of the App
\* that awaits its answer ("submit": handleSubmit, "profile": fetchProfile).
\* The message is held as its UTF-16 code units, <<>> for the empty string.
FormStart ==
    [isLogin |-> TRUE, name |-> "", email |-> "", password |-> "",
     user |-> <<>>, message |-> <<>>, isLoading |-> FALSE,
     mounted |-> TRUE, sent |-> [r \in Req |-> <<>>], calls |-> [r \in Req |-> "none"]]

Init ==
    /\ store \in {{}, {LegacyUser}}
    /\ nextId = 1
    /\ now = 0
    /\ req = [r \in Req |-> Idle]
    /\ created = NoCreated
    /\ form = FormStart

Finish(r, slot, resp) == req' = [req EXCEPT ![r] = [slot EXCEPT !.pc = "done", !.resp = resp]]

(***************************************************************************)
(* POST /signup                                                            *)
(***************************************************************************)
\* (variant: = for ===, the test is always true)
signupGoogleConflictAlways(user) == TRUE

\* (variant: the google-method test is missing)
signupGoogleConflictMissing(user) == FALSE

\* line 72
signupGoogleConflict(user) == user.authMethod = "google"

\* lines 68-76: the lookup and the two rejections
SignupFind(r, name, email, password) ==
    /\ req[r].pc = "idle"
    /\ LET user == findOne(store, email)
           slot == [Idle EXCEPT !.kind = "signup", !.name = name, !.email = email,
                                !.password = password, !.user = user,
                                !.seen = created[email]]
       IN  IF user # <<>>
           THEN IF signupGoogleConflict(user[1])
                THEN Finish(r, slot, jsonMsg(400, MSG_SIGNUP_GOOGLE))
                ELSE Finish(r, slot, jsonMsg(400, MSG_SIGNUP_INUSE))
           ELSE req' = [req EXCEPT ![r] = [slot EXCEPT !.pc = "hash"]]
    /\ UNCHANGED <<store, nextId, now, created>>

\* line 79: new User({ name, email, password: hashedPassword, authMethod: 'password' })
newPasswordUser(id, name, email, hashedPassword) ==
    userSchema(id, name, email, <<hashedPassword>>, Undefined, "password")

\* lines 78-79: bcrypt.hash resolves, new User(...) takes a fresh _id
SignupHash(r) ==
    /\ req[r].kind = "signup" /\ req[r].pc = "hash"
    /\ IF req[r].password = Undefined     \* bcrypt.hash throws: line 85
       THEN /\ Finish(r, req[r], jsonMsg(500, MSG_SERVER))
            /\ UNCHANGED nextId
       ELSE /\ nextId <= MaxId
            /\ LET hashedPassword == hash(req[r].password[1])
                   user == newPasswordUser(nextId, req[r].name, req[r].email,
                                           hashedPassword)
               IN  req' = [req EXCEPT ![r].pc = "save", ![r].user = <<user>>]
            /\ nextId' = nextId + 1
    /\ UNCHANGED <<store, now, created>>

\* lines 80-86: user.save(), then the token and the response, or the catch
SignupSave(r) ==
    /\ req[r].kind = "signup" /\ req[r].pc = "save"
    /\ LET user == req[r].user[1] IN
       IF DuplicateKey(store, user)
       THEN /\ Finish(r, req[r], jsonMsg(500, MSG_SERVER))
            /\ UNCHANGED <<store, created>>
       ELSE LET token == sign(user.id, JWT_SECRET, Clock(now)) IN
            /\ store' = insertOne(store, user)
            /\ Finish(r, req[r], jsonOk(token,
                   [id |-> user.id, name |-> req[r].name, email |-> req[r].email]))
            /\ created' = [created EXCEPT ![req[r].email] =
                   <<[kind |-> "signup", id |-> token.id, password |-> req[r].password,
                      profileId |-> Undefined]>>]
    /\ UNCHANGED <<nextId, now>>

(***************************************************************************)
(* POST /login                                                             *)
(***************************************************************************)
\* (variant: an unknown email gets its own answer)
loginNotFoundTelling == jsonMsg(404, MSG_NOTFOUND)

\* line 94
loginNotFound == jsonMsg(400, MSG_INVALID)

\* line 96
loginGoogleConflict(user) == user.authMethod = "google"

\* line 101
loginMismatch == jsonMsg(400, MSG_INVALID)

\* lines 91-98: the lookup, "not found" and the google-method rejection
LoginFind(r, email, password) ==
    /\ req[r].pc = "idle"
    /\ LET user == findOne(store, email)
           slot == [Idle EXCEPT !.kind = "login", !.email = email, !.password = password,
                                !.user = user, !.seen = created[email]]
       IN  IF user = <<>>
           THEN Finish(r, slot, loginNotFound)
           ELSE IF loginGoogleConflict(user[1])
                THEN Finish(r, slot, jsonMsg(400, MSG_LOGIN_GOOGLE))
                ELSE req' = [req EXCEPT ![r] = [slot EXCEPT !.pc = "compare"]]
    /\ UNCHANGED <<store, nextId, now, created>>

\* lines 100-104: bcrypt.compare resolves, then the token or the rejection
LoginCompare(r) ==
    /\ req[r].kind = "login" /\ req[r].pc = "compare"
    /\ LET user == req[r].user[1]
           isMatch == compare(req[r].password[1], user.password[1])
       IN  IF user.password = Undefined \/ req[r].password = Undefined
                                             \* bcrypt.compare throws: line 106
           THEN Finish(r, req[r], jsonMsg(500, MSG_SERVER))
           ELSE IF ~isMatch
           THEN Finish(r, req[r], loginMismatch)
           ELSE Finish(r, req[r], jsonOk(sign(user.id, JWT_SECRET, Clock(now)),
                    [id |-> user.id, name |-> user.name, email |-> req[r].email]))
    /\ UNCHANGED <<store, nextId, now, created>>

(***************************************************************************)
(* GET /google/callback: the GoogleStrategy verify callback, then the      *)
(* route handler.  passport runs the route handler in the same turn in     *)
(* which the verify callback calls done, so the two end in one step.       *)
(***************************************************************************)
\* (variant: the message is thrown: done(new Error(msg)))
doneMsgAsError(msg) == [called |-> TRUE, err |-> msg, user |-> <<>>, token |-> <<>>, msg |-> ""]

\* done(null, { user: null, msg })
doneMsg(msg) == [called |-> TRUE, err |-> "", user |-> <<>>, token |-> <<>>, msg |-> msg]

\* done(null, { user, token })
doneUser(user, token) ==
    [called |-> TRUE, err |-> "", user |-> <<user>>, token |-> <<token>>, msg |-> ""]

\* done(err, null)
doneErr(err) == [called |-> TRUE, err |-> err, user |-> <<>>, token |-> <<>>, msg |-> ""]

\* lines 113-119, reached only when done was called without an error
googleCallback(d) ==
    IF d.err # "" THEN errorPage(d.err)
    ELSE IF d.user = <<>> THEN redirectMsg(d.msg)
    ELSE redirectToken(d.token[1])

GoogleDone(r, slot, d) ==
    req' = [req EXCEPT ![r] = [slot EXCEPT !.pc = "done", !.done = d,
                                           !.resp = googleCallback(d)]]

\* lines 59-60
GoogleIssue(r, slot, user) ==
    GoogleDone(r, slot, doneUser(user, sign(user.id, JWT_SECRET, Clock(now))))

\* (variant: the password-method test is missing)
googlePasswordConflictMissing(user) == FALSE

\* line 43
googlePasswordConflict(user) == user.authMethod = "password"

\* line 46
needsLink(user) == user.googleId \in {Undefined, <<"">>}

\* (variant: authMethod is left to the schema default)
newGoogleUserDefaultMethod(id, profileId, email, displayName) ==
    userSchema(id, displayName, email, Undefined, <<profileId>>, "password")

\* (variant: googleId left out of the new document)
newGoogleUserNoGoogleId(id, profileId, email, displayName) ==
    userSchema(id, displayName, email, Undefined, Undefined, "google")

\* lines 51-56: new User({ googleId, email, name, authMethod: 'google' })
newGoogleUser(id, profileId, email, displayName) ==
    userSchema(id, displayName, email, Undefined, <<profileId>>, "google")

\* lines 41-47 and 50-56: the lookup and what follows it without an await
GoogleFind(r, profileId, email, displayName) ==
    /\ req[r].pc = "idle"
    /\ LET user == findOne(store, email)
           slot == [Idle EXCEPT !.kind = "google", !.profileId = <<profileId>>,
                                !.email = email, !.name = displayName, !.user = user,
                                !.seen = created[email]]
       IN  IF user # <<>>
           THEN /\ IF googlePasswordConflict(user[1])
                   THEN GoogleDone(r, slot, doneMsg(MSG_GOOGLE_PASSWORD))
                   ELSE IF needsLink(user[1])
                        THEN req' = [req EXCEPT ![r] = [slot EXCEPT !.pc = "link",
                                 !.user = <<[user[1] EXCEPT !.googleId = <<profileId>>]>>]]
                        ELSE GoogleIssue(r, slot, user[1])
                /\ UNCHANGED nextId
           ELSE /\ nextId <= MaxId
                /\ req' = [req EXCEPT ![r] = [slot EXCEPT !.pc = "create",
                       !.user = <<newGoogleUser(nextId, profileId, email, displayName)>>]]
                /\ nextId' = nextId + 1
    /\ UNCHANGED <<store, now, created>>

\* line 48, then 59-60: the save of the linked document
GoogleLink(r) ==
    /\ req[r].kind = "google" /\ req[r].pc = "link"
    /\ store' = updateGoogleId(store, req[r].user[1])
    /\ GoogleIssue(r, req[r], req[r].user[1])
    /\ UNCHANGED <<nextId, now, created>>

\* line 57, then 59-63: the save of the new document
GoogleCreate(r) ==
    /\ req[r].kind = "google" /\ req[r].pc = "create"
    /\ LET user == req[r].user[1] IN
       IF DuplicateKey(store, user)
       THEN /\ GoogleDone(r, req[r], doneErr(E11000))
            /\ UNCHANGED <<store, created>>
       ELSE /\ store' = insertOne(store, user)
            /\ GoogleIssue(r, req[r], user)
            /\ created' = [created EXCEPT ![req[r].email] =
                   <<[kind |-> "google", id |-> user.id, password |-> Undefined,
                      profileId |-> req[r].profileId]>>]
    /\ UNCHANGED <<nextId, now>>

(***************************************************************************)
(* GET /profile behind the auth middleware                                 *)
(***************************************************************************)
\* (variant: the expiry is not looked at)
VerifyNoExpiry(token, t) ==
    IF token.sig # JWT_SECRET THEN [ok |-> FALSE, id |-> -1, failure |-> "Malformed"]
    ELSE [ok |-> TRUE, id |-> token.id, failure |-> ""]

\* Token Service Verify: the subject, or the failure (Malformed: the
\* signature is not valid; Expired: now > expiresAt)
Verify(token, t) ==
    IF token.sig # JWT_SECRET THEN [ok |-> FALSE, id |-> -1, failure |-> "Malformed"]
    ELSE IF t > token.exp THEN [ok |-> FALSE, id |-> -1, failure |-> "Expired"]
    ELSE [ok |-> TRUE, id |-> token.id, failure |-> ""]

MSG_MISSING == "missing token"
MSG_BADTOKEN == "invalid or expired token"

\* (variant: the scheme of the header is not looked at)
AuthenticateAnyScheme(header, t) ==
    IF header = <<>>
    THEN [ok |-> FALSE, id |-> -1, msg |-> MSG_MISSING]
    ELSE LET v == Verify(header[2], t) IN
         IF v.ok THEN [ok |-> TRUE, id |-> v.id, msg |-> ""]
         ELSE [ok |-> FALSE, id |-> -1, msg |-> MSG_BADTOKEN]

\* Auth Gateway Authenticate: header is <<>> or <<scheme, token>>
Authenticate(header, t) ==
    IF header = <<>> \/ header[1] # "Bearer"
    THEN [ok |-> FALSE, id |-> -1, msg |-> MSG_MISSING]
    ELSE LET v == Verify(header[2], t) IN
         IF v.ok THEN [ok |-> TRUE, id |-> v.id, msg |-> ""]
         ELSE [ok |-> FALSE, id |-> -1, msg |-> MSG_BADTOKEN]

\* (variant: the query without the projection)
selectNoPasswordIdentity(user) == user

\* .select('-password')
selectNoPassword(user) == [f \in DOMAIN user \ {"password"} |-> user[f]]

\* lines 124-126: the answer for what findById found in st
profileHandler(st, id) ==
    LET user == findById(st, id) IN
    IF user = <<>> THEN jsonMsg(404, MSG_NOTFOUND)
    ELSE [status |-> 200, msg |-> "", token |-> <<>>,
          user |-> <<selectNoPassword(user[1])>>, redirect |-> ""]

\* The tokens a client can hold: those of the responses not yet collected,
\* those with the signature altered, and one signed outside the server with
\* the secret that line 32 falls back to, for an id that no document has.
HeldTokens == {req[q].resp.token[1] : q \in {x \in Req : req[x].resp.token # <<>>}}
ForgedId == MaxId + 1
ForgedToken == sign(ForgedId, JWT_SECRET, 0)
Headers ==
    {<<>>} \cup {<<"Bearer", k>> : k \in HeldTokens}
           \cup {<<"Basic", k>> : k \in HeldTokens}
           \cup {<<"Bearer", [k EXCEPT !.sig = "tampered"]>> : k \in HeldTokens}
           \cup {<<"Bearer", ForgedToken>>}

\* line 122: the auth middleware answers 401, or sets req.user and lets the
\* handler start its query (lines 123-124, up to the await)
auth(r, header) ==
    /\ req[r].pc = "idle"
    /\ LET slot == [Idle EXCEPT !.kind = "profile", !.header = header]
           a == Authenticate(header, Clock(now))
       IN  IF ~a.ok THEN Finish(r, slot, jsonMsg(401, a.msg))
           ELSE req' = [req EXCEPT ![r] = [slot EXCEPT !.pc = "findById",
                                                       !.reqUser = <<a.id>>]]
    /\ UNCHANGED <<store, nextId, now, created>>

\* lines 124-126: User.findById resolves, then the response
Profile(r) ==
    /\ req[r].kind = "profile" /\ req[r].pc = "findById"
    /\ Finish(r, req[r], profileHandler(store, req[r].reqUser[1]))
    /\ UNCHANGED <<store, nextId, now, created>>

(***************************************************************************)
(* The client collects a response; time passes.                            *)
(***************************************************************************)
Receive(r) ==
    /\ req[r].pc = "done"
    /\ req' = [req EXCEPT ![r] = Idle]
    /\ UNCHANGED <<store, nextId, now, created>>

Tick ==
    /\ now < MaxNow
    /\ now' = now + 1
    /\ UNCHANGED <<store, nextId, req, created>>

\* The server with its clients other than the form: the form stays as loaded.
Next ==
    \/ \E r \in Req, b \in SignupBodies : SignupFind(r, b[1], b[2], b[3]) /\ UNCHANGED form
    \/ \E r \in Req : SignupHash(r) /\ UNCHANGED form
    \/ \E r \in Req : SignupSave(r) /\ UNCHANGED form
    \/ \E r \in Req, b \in LoginBodies : LoginFind(r, b[1], b[2]) /\ UNCHANGED form
    \/ \E r \in Req : LoginCompare(r) /\ UNCHANGED form
    \/ \E r \in Req, x \in ProfileIds, e \in Emails, n \in DisplayNames : GoogleFind(r, x, e, n) /\ UNCHANGED form
    \/ \E r \in Req : GoogleLink(r) /\ UNCHANGED form
    \/ \E r \in Req : GoogleCreate(r) /\ UNCHANGED form
    \/ \E r \in Req : \E h \in Headers : auth(r, h) /\ UNCHANGED form
    \/ \E r \in Req : Profile(r) /\ UNCHANGED form
    \/ \E r \in Req : Receive(r) /\ UNCHANGED form
    \/ Tick /\ UNCHANGED form

Spec == Init /\ [][Next]_vars

(***************************************************************************)
(* The failure kinds of the design, read off a response.                   *)
(***************************************************************************)
Kind(resp) ==
    IF resp.msg \in {MSG_SIGNUP_GOOGLE, MSG_LOGIN_GOOGLE, MSG_GOOGLE_PASSWORD}
        THEN "MethodConflict"
    ELSE IF resp.msg = MSG_SIGNUP_INUSE THEN "DuplicateEmail"
    ELSE IF resp.msg = MSG_INVALID THEN "InvalidCredentials"
    ELSE IF resp.status = 401 THEN "Unauthorized"
    ELSE IF resp.status = 404 THEN "NotFound"
    ELSE IF resp.status = 500 THEN "ServerFault"
    ELSE "none"

Done(r, kind) == req[r].pc = "done" /\ req[r].kind = kind
Issued(r) == req[r].pc = "done" /\ req[r].resp.token # <<>>
WithEmail(e) == {u \in store : u.email = e}

\* The request in slot r tried to insert a document and the insert was refused.
LostCreate(r) ==
    /\ req[r].pc = "done" /\ req[r].kind \in {"signup", "google"}
    /\ req[r].user # <<>>
    /\ req[r].user[1].id \notin {u.id : u \in store}

(***************************************************************************)
(* C1: for every email, the store holds at most one user with that email,  *)
(* whatever signup and reconcile requests ran and however they             *)
(* interleaved.                                                            *)
(***************************************************************************)
C1_UniqueEmail == \A u, v \in store : u.email = v.email => u = v

\* two creations for one email raced and one of them was refused
C1_Witness == \E r \in Req : LostCreate(r) /\ WithEmail(req[r].email) # {}

(***************************************************************************)
(* C2: a token given out by login names a stored user of that email whose  *)
(* authMethod is password, and a token given out by the external path      *)
(* names a stored user of that email whose authMethod is google.           *)
(***************************************************************************)
C2_MethodDecidesPath ==
    \A r \in Req : Issued(r) /\ req[r].kind \in {"login", "google"} =>
        \E u \in WithEmail(req[r].email) :
            /\ u.id = req[r].resp.token[1].id
            /\ u.authMethod = (IF req[r].kind = "login" THEN "password" ELSE "google")

\* a password user logged in while the external path refused the same user
C2_Witness ==
    \E r, q \in Req :
        /\ Done(r, "login") /\ Issued(r)
        /\ Done(q, "google") /\ req[q].email = req[r].email
        /\ req[q].user # <<>> /\ ~Issued(q)
\* The step starts a request of one of `kinds` in slot r for email e.
Starts(r, kinds, e) ==
    req[r].pc = "idle" /\ req'[r].kind \in kinds /\ req'[r].email = e

CreatedBy(e, kind) == created[e] # <<>> /\ created[e][1].kind = kind

(***************************************************************************)
(* C3: once a signup for email E has succeeded, every reconciliation of    *)
(* an external identity for E ends at once with the verify callback's      *)
(* result { user: null, msg } (a method conflict, no error), the store     *)
(* unchanged and no token.                                                 *)
(***************************************************************************)
C3_GoogleAfterSignup ==
    [][\A r \in Req, e \in Emails :
          Starts(r, {"google"}, e) /\ CreatedBy(e, "signup") =>
              /\ req'[r].pc = "done"
              /\ req'[r].done.called /\ req'[r].done.err = ""
              /\ req'[r].done.user = <<>> /\ req'[r].done.token = <<>>
              /\ req'[r].done.msg # ""
              /\ Kind(req'[r].resp) = "MethodConflict"
              /\ req'[r].resp.token = <<>>
              /\ store' = store]_vars

\* a reconciliation for a signed-up email was answered with the message
C3_Witness ==
    \E r \in Req :
        /\ Done(r, "google") /\ CreatedBy(req[r].email, "signup")
        /\ req[r].seen # <<>>
        /\ req[r].done.msg = MSG_GOOGLE_PASSWORD
        /\ \E u \in WithEmail(req[r].email) : u.googleId = Undefined

(***************************************************************************)
(* C4: once a reconciliation has created the google-method user for E,     *)
(* every signup and every login for E, with any password, ends at once     *)
(* with a method conflict, no token, and the store unchanged; the          *)
(* google-method user never has a password.                                *)
(***************************************************************************)
C4_PasswordAfterGoogle ==
    [][\A r \in Req, e \in Emails :
          Starts(r, {"signup", "login"}, e) /\ CreatedBy(e, "google") =>
              /\ req'[r].pc = "done"
              /\ Kind(req'[r].resp) = "MethodConflict"
              /\ req'[r].resp.token = <<>>
              /\ store' = store
              /\ \A u \in WithEmail(e)' : u.password = Undefined]_vars

\* a signup and a login for a google-created email were both refused
C4_Witness ==
    \E r, q \in Req :
        /\ Done(r, "signup") /\ Done(q, "login")
        /\ req[r].email = req[q].email
        /\ req[r].seen # <<>> /\ req[r].seen[1].kind = "google"
        /\ req[q].seen # <<>> /\ req[q].seen[1].kind = "google"
        /\ req[r].resp.msg = MSG_SIGNUP_GOOGLE
        /\ req[q].resp.msg = MSG_LOGIN_GOOGLE

(***************************************************************************)
(* C5: a login with the email and password of an earlier successful        *)
(* signup succeeds, and its token verifies to the id that the signup       *)
(* returned (in its user view and in its own token), whatever ran for      *)
(* other emails in between.                                                *)
(***************************************************************************)
C5_SignupThenLogin ==
    \A r \in Req :
        /\ Done(r, "login")
        /\ req[r].seen # <<>> /\ req[r].seen[1].kind = "signup"
        /\ req[r].seen[1].password = req[r].password
        => /\ req[r].resp.status = 200
           /\ req[r].resp.token # <<>>
           /\ LET token == req[r].resp.token[1] IN
                  /\ token.sig = JWT_SECRET /\ token.iat < token.exp
                  /\ token.id = req[r].seen[1].id
                  /\ req[r].resp.user[1].id = token.id
                  /\ \E u \in WithEmail(req[r].email) :
                         u.id = token.id /\ u.password = <<hash(req[r].password[1])>>

\* the login succeeded after a user for the other email was created in between
C5_Witness ==
    \E r \in Req :
        /\ Done(r, "login") /\ Issued(r)
        /\ req[r].seen # <<>> /\ req[r].seen[1].kind = "signup"
        /\ \E u \in store : u.email # req[r].email /\ u.id > req[r].seen[1].id
(***************************************************************************)
(* C6: the save of a reconciliation (X, E, name) for an email that has no  *)
(* user adds exactly one document, with authMethod google, googleId X and  *)
(* email E, and the token names it; a later reconciliation with the same   *)
(* X and E ends at once with the store unchanged and a token for the id    *)
(* the first one returned.                                                 *)
(***************************************************************************)
C6_ReconcileIdempotent ==
    [][\A r \in Req :
          /\ (/\ req[r].kind = "google" /\ req[r].pc = "create" /\ req'[r].pc = "done"
              /\ WithEmail(req[r].email) = {})
             => \E u \in store' :
                   /\ store' = store \cup {u} /\ u \notin store
                   /\ WithEmail(req[r].email)' = {u}
                   /\ u.authMethod = "google" /\ u.googleId = req[r].profileId
                   /\ u.email = req[r].email /\ u.name = req[r].name
                   /\ req'[r].done.user = <<u>>
                   /\ req'[r].resp.token # <<>> /\ req'[r].resp.token[1].id = u.id
          /\ \A e \in Emails :
                (/\ Starts(r, {"google"}, e) /\ CreatedBy(e, "google")
                 /\ created[e][1].profileId = req'[r].profileId)
                => /\ req'[r].pc = "done"
                   /\ store' = store
                   /\ req'[r].resp.token # <<>>
                   /\ req'[r].resp.token[1].id = created[e][1].id]_vars

\* the second reconciliation with the same identity got its token
C6_Witness ==
    \E r \in Req :
        /\ Done(r, "google") /\ Issued(r)
        /\ req[r].seen # <<>> /\ req[r].seen[1].kind = "google"
        /\ req[r].seen[1].profileId = req[r].profileId
        /\ req[r].resp.token[1].id = req[r].seen[1].id

(***************************************************************************)
(* C7: a login for an email without a user and a login with a wrong        *)
(* password for a password-method user get the same response (status,      *)
(* message, no token, no user), of kind InvalidCredentials.  A wrong       *)
(* password is a password that was sent and is not the user's.             *)
(***************************************************************************)
NoSuchEmail(r) == Done(r, "login") /\ req[r].user = <<>>
WrongPassword(r) ==
    /\ Done(r, "login") /\ req[r].user # <<>>
    /\ req[r].user[1].authMethod = "password"
    /\ req[r].password # Undefined
    /\ req[r].user[1].password # <<hash(req[r].password[1])>>

C7_SameFailure ==
    \A r, q \in Req :
        NoSuchEmail(r) /\ WrongPassword(q) =>
            /\ req[r].resp = req[q].resp
            /\ Kind(req[r].resp) = "InvalidCredentials"
            /\ req[r].resp.status = 400
            /\ req[r].resp.token = <<>> /\ req[r].resp.user = <<>>

\* both failures are on the table at the same time
C7_Witness == \E r, q \in Req : NoSuchEmail(r) /\ WrongPassword(q)

(***************************************************************************)
(* C8: a request whose insert was refused by the unique index is answered  *)
(* with a duplicate-email or method-conflict failure, never with a server  *)
(* fault (500 'Server error', or an error handed to done).                 *)
(***************************************************************************)
C8_RaceLoserNotServerFault ==
    \A r \in Req : LostCreate(r) =>
        /\ Kind(req[r].resp) \in {"DuplicateEmail", "MethodConflict"}
        /\ req[r].resp.status # 500
        /\ req[r].done.err = ""

(***************************************************************************)
(* C9: a googleId that is stored is never replaced by a different value.   *)
(***************************************************************************)
C9_ExternalIdNeverOverwritten ==
    [][\A u \in store : u.googleId # Undefined =>
          \A v \in store' : v.id = u.id => v.googleId = u.googleId]_vars

(***************************************************************************)
(* C10: a stored user is never removed, and its id, email, name, password  *)
(* and authMethod never change; a step of a login or of a profile request  *)
(* leaves the store as it is; the only change to an existing document is   *)
(* a googleId attached, by the save of the linking branch, to the document *)
(* that request loaded, which had none.                                    *)
(***************************************************************************)
SameButGoogleId(u, v) ==
    /\ v.id = u.id /\ v.email = u.email /\ v.name = u.name
    /\ v.password = u.password /\ v.authMethod = u.authMethod

C10_FrameOfStore ==
    [][/\ \A u \in store : \E v \in store' :
             /\ SameButGoogleId(u, v)
             /\ v # u => \E r \in Req :
                   /\ req[r].kind = "google" /\ req[r].pc = "link" /\ req'[r].pc = "done"
                   /\ req[r].user[1].id = u.id
                   /\ u.googleId = Undefined
                   /\ v.googleId = req[r].profileId
       /\ \A r \in Req :
             req'[r] # req[r] /\ {req[r].kind, req'[r].kind} \cap {"login", "profile"} # {}
                => store' = store]_vars

(***************************************************************************)
(* C11: a signup for the email of a stored password-method user, with any  *)
(* name and password, ends at once with 400 'Email already in use'         *)
(* (DuplicateEmail), no token and no user view, and the store unchanged.   *)
(***************************************************************************)
C11_SignupDuplicateEmail ==
    [][\A r \in Req, e \in AllEmails :
          /\ Starts(r, {"signup"}, e)
          /\ \E u \in WithEmail(e) : u.authMethod = "password"
          => /\ req'[r].pc = "done"
             /\ Kind(req'[r].resp) = "DuplicateEmail"
             /\ req'[r].resp.status = 400
             /\ req'[r].resp.token = <<>> /\ req'[r].resp.user = <<>>
             /\ store' = store]_vars

\* a second signup with another name and another password was refused
C11_Witness ==
    \E r \in Req :
        /\ Done(r, "signup") /\ req[r].resp.msg = MSG_SIGNUP_INUSE
        /\ \E u \in WithEmail(req[r].email) :
              /\ u.authMethod = "password"
              /\ u.name # req[r].name
              /\ u.password = <<hash("pw123")>> /\ req[r].password # <<"pw123">>
(***************************************************************************)
(* C12: every failure is answered with one of the typed failures and one   *)
(* of the handlers' own messages; in particular the verify callback never  *)
(* hands the error of a failed lookup or save on (done(err)), and no       *)
(* response carries the storage error.                                     *)
(***************************************************************************)
FailureKinds ==
    {"InvalidInput", "DuplicateEmail", "MethodConflict", "InvalidCredentials",
     "Unauthorized", "NotFound", "ServerFault"}
SafeMessages ==
    {MSG_GOOGLE_PASSWORD, MSG_SIGNUP_GOOGLE, MSG_SIGNUP_INUSE, MSG_INVALID,
     MSG_LOGIN_GOOGLE, MSG_SERVER, MSG_NOTFOUND, MSG_MISSING, MSG_BADTOKEN}
Failed(r) ==
    req[r].pc = "done" /\ req[r].resp.token = <<>> /\ req[r].resp.status # 200

C12_TypedFailuresOnly ==
    \A r \in Req : Failed(r) =>
        /\ Kind(req[r].resp) \in FailureKinds
        /\ req[r].resp.msg \in SafeMessages
        /\ req[r].done.err = ""
(***************************************************************************)
(* C13: a signup whose email is empty, missing or malformed, or whose      *)
(* password or name is empty or missing, fails with InvalidInput (a 400    *)
(* that is none of the other failures), gets no token, and no document     *)
(* with its email is created by it.                                        *)
(***************************************************************************)
InvalidSignup(r) ==
    /\ req[r].kind = "signup"
    /\ \/ req[r].password = Undefined
       \/ formMessage(FALSE, req[r].name, req[r].email, req[r].password[1]) # ""

C13_SignupValidatesInput ==
    \A r \in Req : InvalidSignup(r) =>
        /\ req[r].pc = "done" =>
              /\ req[r].resp.status = 400
              /\ Kind(req[r].resp) \notin FailureKinds \ {"InvalidInput"}
              /\ req[r].resp.token = <<>>
        /\ \A u \in WithEmail(req[r].email) : req[r].user # <<u>>

(***************************************************************************)
(* What a response carries.                                                *)
(***************************************************************************)
StoredHashes == {u.password[1] : u \in {v \in store : v.password # Undefined}}

\* The user object of a response holds no password field, and none of its
\* string fields is a stored hash.
NoHashIn(view) ==
    /\ "password" \notin DOMAIN view
    /\ \A f \in DOMAIN view \ {"id"} :
          IF f = "googleId" THEN view[f] \notin {<<h>> : h \in StoredHashes}
          ELSE view[f] \notin StoredHashes

\* C14: no response carries a passwordHash: signup and login bodies hold
\* exactly id, name and email; the profile body is the stored record without
\* its password field; the callback redirect carries only the token or the
\* message.
C14_NoPasswordHashOut ==
    \A r \in Req : req[r].pc = "done" =>
        /\ req[r].resp.msg \notin StoredHashes
        /\ \A view \in {req[r].resp.user[i] : i \in DOMAIN req[r].resp.user} :
              /\ NoHashIn(view)
              /\ req[r].kind \in {"signup", "login"} =>
                    DOMAIN view = {"id", "name", "email"}
              /\ req[r].kind = "profile" =>
                    \E u \in store :
                        /\ DOMAIN view = DOMAIN u \ {"password"}
                        /\ \A f \in DOMAIN view : view[f] = u[f]
        /\ req[r].kind = "google" =>
              /\ req[r].resp.user = <<>>
              /\ req[r].resp.redirect = "token" => req[r].resp.msg = ""
              /\ req[r].resp.redirect = "msg" => req[r].resp.token = <<>>

\* A profile answered for a user who has a password hash in the store.
C14_Witness ==
    \E r \in Req : \E u \in store :
        /\ Done(r, "profile") /\ req[r].resp.status = 200
        /\ req[r].resp.user[1].id = u.id
        /\ u.password # Undefined /\ u.password[1] \in StoredHashes

(***************************************************************************)
(* The guard of the protected route.                                       *)
(***************************************************************************)
\* The request in slot r is a profile request that reaches the middleware in
\* this step with a bearer header.
BearerProfile(r) ==
    /\ req[r].pc = "idle" /\ req'[r].kind = "profile"
    /\ req'[r].header # <<>> /\ req'[r].header[1] = "Bearer"

\* C15: Verify is decided by signature and expiry only.  A token past its
\* expiresAt is refused (as Expired when its signature is right), a token with
\* a wrong signature is refused as Malformed, and a rightly signed token that
\* is not past its expiresAt yields its subject id whatever the store holds
\* by then: the handler is started with that id as req.user.
C15_VerifyBySignatureAndExpiry ==
    [][\A r \in Req : BearerProfile(r) =>
          LET k == req'[r].header[2]
              v == Verify(k, Clock(now))
              refused == req'[r].pc = "done" /\ req'[r].resp.status = 401
          IN  /\ k.sig # JWT_SECRET =>
                    ~v.ok /\ v.failure = "Malformed" /\ refused
              /\ k.exp < Clock(now) =>
                    /\ ~v.ok /\ refused
                    /\ k.sig = JWT_SECRET => v.failure = "Expired"
              /\ k.sig = JWT_SECRET /\ k.exp >= Clock(now) =>
                    /\ v.ok /\ v.id = k.id
                    /\ req'[r].pc = "findById"
                    /\ req'[r].reqUser = <<k.id>>]_vars

\* A rightly signed token presented after its expiry and refused.
C15_Witness ==
    \E r \in Req :
        /\ Done(r, "profile") /\ req[r].header # <<>> /\ req[r].header[1] = "Bearer"
        /\ req[r].header[2].sig = JWT_SECRET
        /\ req[r].header[2].exp < Clock(now)
        /\ req[r].resp = jsonMsg(401, MSG_BADTOKEN)

(***************************************************************************)
(* Token issuance.                                                         *)
(***************************************************************************)
\* The request in slot r ends in this step with a token.
Issues(r) == req[r].pc # "done" /\ req'[r].pc = "done" /\ req'[r].resp.token # <<>>

\* C16: every token issued by signup, login or the external-login callback
\* has as subject the id of the user the operation resolved (the stored user
\* of the request's email), issuedAt = the time of issuance, expiresAt =
\* issuedAt + 1 hour (3600 s), and is signed with the one process-wide secret.
C16_TokenFields ==
    [][\A r \in Req : Issues(r) =>
          LET k == req'[r].resp.token[1] IN
          /\ req'[r].kind \in {"signup", "login", "google"}
          /\ k.iat = Clock(now)
          /\ k.exp = k.iat + 3600
          /\ k.sig = JWT_SECRET
          /\ \E u \in store' : u.email = req'[r].email /\ u.id = k.id
          /\ req'[r].kind = "google" => req'[r].done.user[1].id = k.id
          /\ req'[r].kind # "google" => req'[r].resp.user[1].id = k.id]_vars

\* A login answered with a token issued later than time 0, for the second
\* user of the store.
C16_Witness ==
    \E r \in Req :
        /\ Done(r, "login") /\ Issued(r)
        /\ req[r].resp.token[1].iat > 0
        /\ req[r].resp.token[1].exp = req[r].resp.token[1].iat + 3600
        /\ req[r].resp.token[1].id = 2

\* C17: the profile handler runs only behind a bearer token that verifies.
\* No header or another scheme: 401 'missing token'; a token that fails
\* Verify: 401 'invalid or expired token'; otherwise the handler is started
\* with the token's subject id and nothing else of the token, and its answer
\* is the record whose id is that subject (200, password excluded), or 404
\* when the store holds no such record.
C17_ProfileGuard ==
    [][\A r \in Req :
          /\ req[r].pc = "idle" /\ req'[r].kind = "profile" =>
                LET h == req'[r].header
                    refused(msg) ==
                        req'[r].pc = "done" /\ req'[r].resp = jsonMsg(401, msg)
                IN  /\ h = <<>> => refused(MSG_MISSING)
                    /\ h # <<>> =>
                          IF h[1] # "Bearer" THEN refused(MSG_MISSING)
                          ELSE IF ~Verify(h[2], Clock(now)).ok
                          THEN refused(MSG_BADTOKEN)
                          ELSE /\ req'[r].pc = "findById"
                               /\ req'[r].reqUser = <<h[2].id>>
                    /\ req'[r].pc = "done" => req'[r].reqUser = <<>>
                    /\ store' = store
          /\ req[r].kind = "profile" /\ req[r].pc = "findById" /\ req'[r] # req[r] =>
                LET id == req[r].reqUser[1]
                    resp == req'[r].resp
                IN  /\ req'[r].pc = "done"
                    /\ IF \E u \in store : u.id = id
                       THEN /\ resp.status = 200
                            /\ \E u \in store :
                                  /\ u.id = id
                                  /\ DOMAIN resp.user[1] = DOMAIN u \ {"password"}
                                  /\ \A f \in DOMAIN resp.user[1] :
                                        resp.user[1][f] = u[f]
                       ELSE resp = jsonMsg(404, MSG_NOTFOUND)
                    /\ store' = store]_vars

\* A profile answered with the record of the token's subject, out of a store
\* of two records, and a profile with a token for an id without a record
\* answered 404.
C17_Witness ==
    \E r, q \in Req :
        /\ Done(r, "profile") /\ req[r].resp.status = 200
        /\ req[r].resp.user[1].id = req[r].header[2].id
        /\ \E u \in store : u.id # req[r].header[2].id
        /\ Done(q, "profile") /\ req[q].header = <<"Bearer", ForgedToken>>
        /\ req[q].resp = jsonMsg(404, MSG_NOTFOUND)

(***************************************************************************)
(* The answer of the external-login callback.                              *)
(***************************************************************************)
\* C18: the callback always answers with a redirect that carries exactly one
\* of token and message: the token iff reconciliation produced a user, the
\* message iff it returned a failure message; never an HTTP error status, and
\* a password-method conflict is delivered as the redirect message.
C18_CallbackRedirectsWithOne ==
    \A r \in Req : Done(r, "google") =>
        /\ req[r].resp.status = 302
        /\ req[r].resp.redirect \in {"token", "msg"}
        /\ req[r].resp.redirect = "token" <=>
              req[r].done.user # <<>> /\ req[r].resp.token = req[r].done.token
        /\ req[r].resp.redirect = "msg" <=>
              req[r].done.msg # "" /\ req[r].resp.msg = req[r].done.msg
        /\ ~(req[r].resp.token # <<>> /\ req[r].resp.msg # "")
        /\ req[r].done.err = ""

\* C19: whenever the external-login callback issues a token for identity X
\* and email E, the stored user for E has authMethod google and googleId X;
\* a google user stored with another id Y is not authenticated.
C19_TokenOnlyForMatchingExternalId ==
    [][\A r \in Req : Issues(r) /\ req'[r].kind = "google" =>
          \A u \in {v \in store' : v.email = req'[r].email} :
              /\ u.authMethod = "google"
              /\ u.googleId = req'[r].profileId]_vars

(***************************************************************************)
(* The records this system creates.                                        *)
(***************************************************************************)
\* The store was empty at start: the document of an earlier deployment is
\* not in it (documents are never deleted).
StartedEmpty == \A u \in store : u.id # LegacyId

\* C20: started from an empty store, every record has either authMethod
\* password with a password hash and no googleId, or authMethod google with a
\* googleId and no password hash; no callback is ever on the linking branch.
C20_CreatedRecordsShape ==
    StartedEmpty =>
        /\ \A u \in store :
              /\ u.authMethod = "password" =>
                    u.password # Undefined /\ u.googleId = Undefined
              /\ u.authMethod = "google" =>
                    u.googleId # Undefined /\ u.password = Undefined
        /\ \A r \in Req : req[r].pc # "link"

\* A store started empty that holds a user of each method.
C20_Witness ==
    /\ StartedEmpty
    /\ \E u, v \in store : u.authMethod = "password" /\ v.authMethod = "google"

(***************************************************************************)
(* Tokens and the records they name.                                       *)
(***************************************************************************)
\* C21: every token in a response names a user that is in the store, with the
\* email of the request that obtained it (records are never removed, so this
\* holds from issuance on); a request whose insert was refused has no token;
\* every token a client presents, but the one signed outside the server,
\* names a stored id.
C21_TokenNamesStoredUser ==
    /\ \A r \in Req : Issued(r) =>
          /\ req[r].kind \in {"signup", "login", "google"}
          /\ \E u \in store :
                u.id = req[r].resp.token[1].id /\ u.email = req[r].email
    /\ \A r \in Req : LostCreate(r) =>
          req[r].resp.token = <<>> /\ req[r].done.token = <<>>
    /\ \A r \in Req : req[r].header # <<>> /\ req[r].header[2] # ForgedToken =>
          req[r].header[2].id \in {u.id : u \in store}

\* Two requests raced to create the same email: the winner holds a token for
\* the stored record, the loser holds none.
C21_Witness ==
    \E r, q \in Req :
        /\ LostCreate(r) /\ req[r].resp.token = <<>>
        /\ Issued(q) /\ req[q].email = req[r].email
        /\ \E u \in store : u.id = req[q].resp.token[1].id /\ u.email = req[q].email

(***************************************************************************)
(* A signup and an external login racing for one unseen email.             *)
(***************************************************************************)
\* The finished request in slot r found no user for its email and tried to
\* insert its own document: no document had been created for the email when
\* it looked, and the document it holds is not one of an earlier deployment.
TriedCreate(r) ==
    /\ req[r].pc = "done" /\ req[r].kind \in {"signup", "google"}
    /\ req[r].user # <<>>
    /\ req[r].seen = <<>> /\ req[r].user[1].id # LegacyId

Won(r) == TriedCreate(r) /\ ~LostCreate(r)

\* C22: a signup and an external login for the same unseen email that both
\* passed the lookup: at most one gets a token; the store holds one record
\* for the email, the winner's, with the winner's authMethod; the other
\* request has no token and no record.
C22_MixedRaceOneWinner ==
    \A r, q \in Req :
        /\ req[r].kind = "signup" /\ req[q].kind = "google"
        /\ req[r].email = req[q].email
        /\ TriedCreate(r) /\ TriedCreate(q)
        => /\ ~(Issued(r) /\ Issued(q))
           /\ \E w \in {r, q} : \E l \in {r, q} \ {w} :
                 /\ Won(w) /\ LostCreate(l)
                 /\ WithEmail(req[w].email) = {req[w].user[1]}
                 /\ req[w].user[1].authMethod =
                       (IF req[w].kind = "signup" THEN "password" ELSE "google")
                 /\ Issued(w) /\ req[w].resp.token[1].id = req[w].user[1].id
                 /\ req[l].resp.token = <<>> /\ req[l].done.token = <<>>
                 /\ req[l].resp.status = 500

\* The race with the external login as the winner.
C22_Witness ==
    \E r, q \in Req :
        /\ req[r].kind = "signup" /\ req[q].kind = "google"
        /\ req[r].email = req[q].email
        /\ TriedCreate(r) /\ TriedCreate(q)
        /\ Won(q) /\ LostCreate(r)
        /\ \A u \in WithEmail(req[q].email) : u.authMethod = "google"

(***************************************************************************)
(* frontend/src/App.jsx: the App in one browser tab, with the server       *)
(* behind it.                                                              *)
(***************************************************************************)
FormNames == {"", "Alice"}
FormEmails == {"", "alice@x.com", BadEmail}
FormPasswords == {"", "pw123"}

\* The Google account this browser is signed in to: what the callback gets
\* as profile.id, profile.emails[0].value and profile.displayName.
GoogleAccounts == {<<"g-1", "alice@x.com", "Al G">>}

ServerVars == <<store, nextId, now, req, created>>

\* String.prototype.includes, on the code units of the two strings
Includes(s, sub) ==
    \E i \in 1..(Len(s) - Len(sub) + 1) : SubSeq(s, i, i + Len(sub) - 1) = sub

\* Connection r carries nothing of this tab.
Free(r) == req[r].pc = "idle" /\ form.sent[r] = <<>> /\ form.calls[r] = "none"

\* lines 40-59: the checks, setIsLoading(true) and the fetch, whose request
\* leaves on connection r
handleSubmit(r) ==
    LET m == formMessage(form.isLogin, form.name, form.email, form.password) IN
    IF m # ""
    THEN /\ form' = [form EXCEPT !.message = codeUnits(m)]
         /\ UNCHANGED ServerVars
    ELSE /\ Free(r)
         /\ form' = [form EXCEPT !.isLoading = TRUE,
                !.sent[r] = <<[kind |-> IF form.isLogin THEN "login" ELSE "signup",
                               name |-> form.name, email |-> form.email,
                               password |-> <<form.password>>, header |-> <<>>]>>,
                !.calls[r] = "submit"]
         /\ UNCHANGED ServerVars

\* lines 236-239: the submit button, disabled while isLoading
ClickSubmit ==
    /\ form.mounted /\ form.user = <<>> /\ ~form.isLoading
    /\ \E r \in Req : handleSubmit(r)

\* line 224: Enter in the password field
PressEnter ==
    /\ form.mounted /\ form.user = <<>>
    /\ \E r \in Req : handleSubmit(r)

\* line 200 (the field is shown in signup mode), lines 212 and 223
SetName(n) ==
    /\ form.mounted /\ form.user = <<>> /\ ~form.isLogin
    /\ form' = [form EXCEPT !.name = n]
    /\ UNCHANGED ServerVars

SetEmail(e) ==
    /\ form.mounted /\ form.user = <<>>
    /\ form' = [form EXCEPT !.email = e]
    /\ UNCHANGED ServerVars

SetPassword(p) ==
    /\ form.mounted /\ form.user = <<>>
    /\ form' = [form EXCEPT !.password = p]
    /\ UNCHANGED ServerVars

\* lines 277-280: the 'Sign Up' / 'Sign In' switch
ToggleMode ==
    /\ form.mounted /\ form.user = <<>>
    /\ form' = [form EXCEPT !.isLogin = ~form.isLogin, !.message = <<>>]
    /\ UNCHANGED ServerVars

\* lines 86-91, behind the X of the message box
handleClearForm ==
    /\ form.mounted /\ form.user = <<>> /\ form.message # <<>>
    /\ form' = [form EXCEPT !.name = "", !.email = "", !.password = "", !.message = <<>>]
    /\ UNCHANGED ServerVars

\* lines 169-179: 'Try Password Login', shown with a message that includes
\* 'password authentication'
TryPasswordLogin ==
    /\ form.mounted /\ form.user = <<>>
    /\ Includes(form.message, codeUnits("password authentication"))
    /\ form' = [form EXCEPT !.isLogin = TRUE, !.name = "", !.email = "",
                            !.password = "", !.message = <<>>]
    /\ UNCHANGED ServerVars

\* lines 80-84, on the profile view
handleLogout ==
    /\ form.mounted /\ form.user # <<>>
    /\ form' = [form EXCEPT !.user = <<>>, !.message = <<>>]
    /\ UNCHANGED ServerVars

\* The App as it is right after mounting: fresh state; what the tab sent
\* before is still on the wire, and nothing awaits an answer any more.
Fresh == [FormStart EXCEPT !.sent = form.sent]

\* lines 27-31: fetchProfile sends GET /profile on connection r
fetchProfile(f, token, r) ==
    [f EXCEPT !.sent[r] = <<[kind |-> "profile", name |-> "",
                             email |-> "", password |-> Undefined,
                             header |-> <<"Bearer", token>>]>>,
              !.calls[r] = "profile"]

Percent == 37                    \* the code unit of '%'
Hex == 16

\* the value of the hexadecimal digit with code unit c ('0'-'9', 'A'-'F',
\* 'a'-'f'), -1 for any other code unit
hexValue(c) ==
    IF c \in 48..57 THEN c - 48
    ELSE IF c \in 65..70 THEN c - 55
    ELSE IF c \in 97..102 THEN c - 87
    ELSE -1

\* the octet of the escape %XX at position i of the code units u, -1 when
\* there is none
octetAt(u, i) ==
    IF i < 1 \/ i + 2 > Len(u) THEN -1
    ELSE IF u[i] # Percent THEN -1
    ELSE IF hexValue(u[i + 1]) < 0 \/ hexValue(u[i + 2]) < 0 THEN -1
    ELSE Hex * hexValue(u[i + 1]) + hexValue(u[i + 2])

Ascii == 128                     \* octets below it stand for themselves

\* the number of octets that follow the leading octet n of a UTF-8 sequence
continuations(n) == IF n < 224 THEN 1 ELSE IF n < 240 THEN 2 ELSE 3

\* the escapes at position p of u, with leading octet n from 128 on, are the
\* UTF-8 sequence of one code point: no overlong form, no surrogate, nothing
\* above U+10FFFF
validSequence(u, p, n) ==
    /\ n >= 194 /\ n <= 244
    /\ \A k \in 1..continuations(n) : octetAt(u, p + 3 * k) \in 128..191
    /\ n = 224 => octetAt(u, p + 3) >= 160
    /\ n = 237 => octetAt(u, p + 3) <= 159
    /\ n = 240 => octetAt(u, p + 3) >= 144
    /\ n = 244 => octetAt(u, p + 3) <= 143

\* the code point of the valid UTF-8 sequence at position p of u
codePoint(u, p, n) ==
    LET c(k) == octetAt(u, p + 3 * k) - 128 IN
    IF n < 224 THEN (n - 192) * 64 + c(1)
    ELSE IF n < 240 THEN (n - 224) * 4096 + c(1) * 64 + c(2)
    ELSE (n - 240) * 262144 + c(1) * 4096 + c(2) * 64 + c(3)

\* the UTF-16 code units of a code point: itself, or a surrogate pair
utf16(cp) ==
    IF cp < 65536 THEN <<cp>>
    ELSE <<55296 + ((cp - 65536) \div 1024), 56320 + ((cp - 65536) % 1024)>>

LeadFrom == 192                  \* octets from it on lead a UTF-8 sequence

\* every '%' of u begins an escape %XX; an octet from 192 on leads a valid
\* UTF-8 sequence; an octet from 128 to 191 continues the sequence of a
\* leading octet at most three escapes before it
wellFormed(u) ==
    \A i \in 1..Len(u) :
        u[i] = Percent =>
            LET n == octetAt(u, i) IN
            /\ n >= 0
            /\ n >= LeadFrom => validSequence(u, i, n)
            /\ n >= Ascii /\ n < LeadFrom =>
                  \E k \in 1..3 :
                      LET m == octetAt(u, i - 3 * k) IN
                      /\ m >= LeadFrom
                      /\ validSequence(u, i - 3 * k, m)
                      /\ continuations(m) >= k

\* what position i of a well-formed u gives to the decoded string: a code
\* unit outside the escapes gives itself, the '%' of an escape gives the
\* character of its octet or of the sequence it leads, and the digits of an
\* escape and the escapes that continue a sequence give nothing
decodedAt(u, i) ==
    IF u[i] = Percent
    THEN LET n == octetAt(u, i) IN
         IF n < Ascii THEN <<n>>
         ELSE IF n >= LeadFrom THEN utf16(codePoint(u, i, n))
         ELSE <<>>
    ELSE IF (i > 1 /\ u[i - 1] = Percent) \/ (i > 2 /\ u[i - 2] = Percent)
    THEN <<>>
    ELSE <<u[i]>>

\* what the positions lo..hi of u give, in order
RECURSIVE decodedBetween(_, _, _)
decodedBetween(u, lo, hi) ==
    IF lo > hi THEN <<>>
    ELSE IF lo = hi THEN decodedAt(u, lo)
    ELSE LET mid == (lo + hi) \div 2 IN
         decodedBetween(u, lo, mid) \o decodedBetween(u, mid + 1, hi)

\* decodeURIComponent on the code units u of its argument: <<the code units
\* of the decoded string>>, or <<>> when it throws URIError (a '%' without
\* two hexadecimal digits, or octets from 128 on that are no UTF-8 sequence)
decodeURIComponent(u) ==
    IF \A i \in 1..Len(u) : u[i] # Percent THEN <<u>>
    ELSE IF wellFormed(u) THEN <<decodedBetween(u, 1, Len(u))>>
    ELSE <<>>

\* lines 14-25: the effect run once on mount, on what URLSearchParams gives
\* for the msg and token parameters of the page's URL (msg as code units,
\* <<>> for an absent or empty one).  A URIError thrown by line 19 is caught
\* by nothing: React takes the App off the screen.
useEffect(f, msg, token, r) ==
    IF msg # <<>>
    THEN LET decoded == decodeURIComponent(msg) IN
         IF decoded = <<>> THEN [f EXCEPT !.mounted = FALSE]
         ELSE [f EXCEPT !.message = decoded[1]]
    ELSE IF token # <<>> THEN fetchProfile(f, token[1], r)
    ELSE f

\* lines 76-78: window.location.href = the server's /google route; the App
\* is gone from the screen
handleGoogleLogin ==
    /\ form.mounted /\ form.user = <<>>
    /\ form' = [Fresh EXCEPT !.mounted = FALSE]
    /\ UNCHANGED ServerVars

\* A token nobody issued, typed into the address bar.
BadToken == [id |-> 1, iat |-> 0, exp |-> ExpiresIn, sig |-> "tampered"]

\* What the user types into the address bar as the msg parameter, as
\* URLSearchParams reads it, in code units: nothing, a text with the escapes
\* of a two-octet character and of an ASCII one, and a '%' that escapes
\* nothing.
UrlMessages == {codeUnits(m) : m \in {"", "caf%C3%A9 %41", "%"}}

\* The user opens the frontend again, with or without a msg and a token
\* parameter; the request of fetchProfile leaves on connection r.
OpenApp(msg, token, r) ==
    /\ ~form.mounted /\ \A q \in Req : req[q].kind # "google"
    /\ msg = <<>> /\ token # <<>> => req[r].pc = "idle" /\ form.sent[r] = <<>>
    /\ form' = useEffect(Fresh, msg, token, r)
    /\ UNCHANGED ServerVars

\* The request on connection r reaches its route handler.
Arrive(r) ==
    /\ form.sent[r] # <<>>
    /\ LET m == form.sent[r][1] IN
       IF m.kind = "login" THEN LoginFind(r, m.email, m.password)
       ELSE IF m.kind = "signup" THEN SignupFind(r, m.name, m.email, m.password)
       ELSE auth(r, m.header)
    /\ form' = [form EXCEPT !.sent[r] = <<>>]

\* Google sends the browser to the callback route.
GoogleArrive(r, profileId, email, displayName) ==
    /\ ~form.mounted /\ \A q \in Req : req[q].kind # "google"
    /\ form.sent[r] = <<>>
    /\ GoogleFind(r, profileId, email, displayName)
    /\ UNCHANGED form

\* The browser follows the callback's redirect and the App mounts; on an
\* error response the browser stays on the error page.
Redirect(r) ==
    /\ req[r].kind = "google"
    /\ Receive(r)
    /\ form' = IF req[r].resp.status = 302
               THEN useEffect(Fresh, codeUnits(req[r].resp.msg), req[r].resp.token, r)
               ELSE form

\* lines 59-68 and 71-73 (handleSubmit), lines 32-34 (fetchProfile): the
\* response arrives
FetchResolve(r) ==
    /\ form.calls[r] # "none"
    /\ Receive(r)
    /\ LET data == req[r].resp
           f == [form EXCEPT !.calls[r] = "none"]
       IN  form' =
             IF form.calls[r] = "submit"
             THEN IF data.token # <<>>
                  THEN [f EXCEPT !.user = data.user, !.message = <<>>, !.isLoading = FALSE]
                  ELSE [f EXCEPT !.message = codeUnits(data.msg), !.isLoading = FALSE]
             ELSE IF data.user # <<>>
                  THEN [f EXCEPT !.user = data.user]
                  ELSE [f EXCEPT !.message = codeUnits(data.msg)]

\* lines 69-73 (handleSubmit), lines 35-37 (fetchProfile): the fetch rejects;
\* whatever the server still answers goes nowhere
FetchReject(r) ==
    /\ form.calls[r] # "none"
    /\ form' = IF form.calls[r] = "submit"
               THEN [form EXCEPT !.calls[r] = "none", !.message = codeUnits("Server error"),
                                 !.isLoading = FALSE]
               ELSE [form EXCEPT !.calls[r] = "none",
                                 !.message = codeUnits("Error fetching profile")]
    /\ UNCHANGED ServerVars

\* An answer that no handler of the tab awaits is dropped.
Discard(r) ==
    /\ form.calls[r] = "none" /\ req[r].kind # "google"
    /\ Receive(r)
    /\ UNCHANGED form

FormNext ==
    \/ ClickSubmit
    \/ PressEnter
    \/ \E n \in FormNames : SetName(n)
    \/ \E e \in FormEmails : SetEmail(e)
    \/ \E p \in FormPasswords : SetPassword(p)
    \/ ToggleMode
    \/ handleClearForm
    \/ TryPasswordLogin
    \/ handleLogout
    \/ handleGoogleLogin
    \/ \E r \in Req, m \in UrlMessages, k \in {<<>>, <<BadToken>>} : OpenApp(m, k, r)
    \/ \E r \in Req : Arrive(r)
    \/ \E r \in Req, g \in GoogleAccounts : GoogleArrive(r, g[1], g[2], g[3])
    \/ \E r \in Req : SignupHash(r) /\ UNCHANGED form
    \/ \E r \in Req : SignupSave(r) /\ UNCHANGED form
    \/ \E r \in Req : LoginCompare(r) /\ UNCHANGED form
    \/ \E r \in Req : GoogleLink(r) /\ UNCHANGED form
    \/ \E r \in Req : GoogleCreate(r) /\ UNCHANGED form
    \/ \E r \in Req : Profile(r) /\ UNCHANGED form
    \/ \E r \in Req : Redirect(r)
    \/ \E r \in Req : FetchResolve(r)
    \/ \E r \in Req : FetchReject(r)
    \/ \E r \in Req : Discard(r)

FormSpec == Init /\ [][FormNext]_vars

\* The handleSubmit calls that sent their request and have not yet got the
\* response or the error.
InFlight == {r \in Req : form.calls[r] = "submit"}

\* C23: at most one request of the form is in flight at a time, and
\* isLoading is true only while a request is in flight.
C23_OneRequestInFlight ==
    /\ \A r, q \in InFlight : r = q
    /\ form.isLoading => InFlight # {}
=========================================================================
